---- MODULE Spec2Model ----
(***************************************************************************)
(* Model of the school-portal scraper (dnevnik_ru_pars: Parser) and of the *)
(* controller service that persists what the scraper returns               *)
(* (controller: Router, Api, Database).                                    *)
(*                                                                         *)
(* SpecParser : one invocation of Parser.get_cookies_person_school_group_id*)
(*              / get_marks / get_timetable against an arbitrary upstream. *)
(* SpecStore  : change_create_data requests of the controller service      *)
(*              running concurrently against one user table.               *)
(* SpecFetch  : the same with get_marks and get_timetable requests.        *)
(* SpecConcurrent : invocations of the parser for different users,         *)
(*              interleaved at their awaits.                               *)
(* SpecUser   : the user service (tg_user_service: Controller, Api) on top *)
(*              of the controller service, one message at a time.          *)
(* SpecBot    : the Telegram bot (tg_bot: TgBot, Api): its dialogue, its   *)
(*              controller client and the delivery of replies.             *)
(***************************************************************************)
EXTENDS Integers, Sequences, FiniteSets, TLC

\* ------------------------------------------------------------------ bounds
MaxSubjects == 2
MaxWorks == 2
MaxMarks == 2
MaxScripts == 12
MaxRequests == 2
MaxCalls == 2
MaxText == 2

\* ------------------------------------------------------- program constants
\* body.find_all("script")[11]: the 12th script block
ScriptIndex == 12

\* ------------------------------------------------------------ value spaces
Absent == "<absent>"
Missing == "<missing>"
NoneVal == "None"

SST == "dnevnik_sst"
CookieNames == {SST, "session"}
CookieValues == {"x", "y"}
CookieDicts == [CookieNames -> CookieValues \cup {Absent}]
EmptyCookies == [n \in CookieNames |-> Absent]

Transports == {"ok", "timeout", "error"}
Statuses == {200, 302, 500}

IsSuccess(status) == status >= 200 /\ status < 300

\* ---------------------------------------------------------- marks payload
SubjectNames == {"Math", "Phys"}
MarkValues == {"5", "4"}
Averages == {"4.5", Missing}

\* the works of one subject: w works holding m marks between them
RECURSIVE WorksWith(_, _)
WorksWith(w, m) ==
    IF w = 0 THEN (IF m = 0 THEN {<<>>} ELSE {})
    ELSE UNION {{<<first>> \o rest : first \in [1..k -> MarkValues], rest \in WorksWith(w - 1, m - k)} :
                   k \in 0..m}

SubjectsWith(w, m) == [name : SubjectNames, works : WorksWith(w, m), average : Averages]

\* the payloads of k subjects holding w works and m marks between them
RECURSIVE PayloadsWith(_, _, _)
PayloadsWith(k, w, m) ==
    IF k = 0 THEN (IF w = 0 /\ m = 0 THEN {<<>>} ELSE {})
    ELSE UNION {{<<subject>> \o rest : subject \in SubjectsWith(w1, m1),
                                       rest \in PayloadsWith(k - 1, w - w1, m - m1)} :
                   w1 \in 0..w, m1 \in 0..m}

\* the shape <<k, w, m, w1, m1>> of a "subjects" list of the marks API: k
\* subjects holding w works and m marks, the first subject w1 works and m1
\* marks; at most MaxSubjects subjects, MaxWorks works and MaxMarks marks
PayloadShapes ==
    {<<0, 0, 0, 0, 0>>}
    \cup {shape \in (1..MaxSubjects) \X (0..MaxWorks) \X (0..MaxMarks) \X (0..MaxWorks) \X (0..MaxMarks) :
              shape[4] <= shape[2] /\ shape[5] <= shape[3]}

\* the "subjects" lists of one shape
Payloads(shape) ==
    IF shape[1] = 0 THEN {<<>>}
    ELSE {<<subject>> \o rest :
             subject \in SubjectsWith(shape[4], shape[5]),
             rest \in PayloadsWith(shape[1] - 1, shape[2] - shape[4], shape[3] - shape[5])}

\* the marks of each work put in front of those collected so far
RECURSIVE LocalMarksPrepend(_)
LocalMarksPrepend(works) ==
    IF works = <<>> THEN <<>> ELSE LocalMarksPrepend(Tail(works)) \o Head(works)

\* local_marks of one subject: the marks of its works, work by work
RECURSIVE LocalMarks(_)
LocalMarks(works) ==
    IF works = <<>> THEN <<>> ELSE Head(works) \o LocalMarks(Tail(works))

\* the subject's average is read only when local_marks is non-empty
SubjectRaises(subject) ==
    LocalMarks(subject.works) # <<>> /\ subject.average = Missing

\* the average appended whether or not the subject has marks
SubjectEntryAlwaysAverage(subject) ==
    <<LocalMarks(subject.works), subject.average>>

SubjectEntry(subject) ==
    LET local_marks == LocalMarks(subject.works)
    IN  IF local_marks # <<>> THEN <<local_marks, subject.average>> ELSE <<local_marks>>

NoEntry == <<>>
EmptyMarks == [n \in SubjectNames |-> NoEntry]

\* Parser.__process_marks: [raised, marks]; marks[name] = NoEntry when the
\* dict has no such key
RECURSIVE ProcessFrom(_, _)
ProcessFrom(subjects, marks) ==
    IF subjects = <<>> THEN [raised |-> FALSE, marks |-> marks]
    ELSE LET subject == Head(subjects)
         IN  IF SubjectRaises(subject)
             THEN [raised |-> TRUE, marks |-> marks]
             ELSE ProcessFrom(Tail(subjects),
                              [marks EXCEPT ![subject.name] = SubjectEntry(subject)])

RECURSIVE Reverse(_)
Reverse(seq) == IF seq = <<>> THEN <<>> ELSE Reverse(Tail(seq)) \o <<Head(seq)>>

\* an entry once written is kept: the first subject of a name wins
process_marks_first_wins(subjects) == ProcessFrom(Reverse(subjects), EmptyMarks)

process_marks(subjects) == ProcessFrom(subjects, EmptyMarks)

\* ------------------------------------------------------------- cookie jar
\* a response's Set-Cookie headers stored into the client's jar
StoreCookies(jar, setCookies) ==
    [n \in CookieNames |-> IF setCookies[n] # Absent THEN setCookies[n] ELSE jar[n]]

\* client.cookies.delete(name): removes the cookie when present
DeleteCookie(jar, name) == [jar EXCEPT ![name] = Absent]

NameOrder == <<SST, "session">>

\* json.dumps of a str->str dict: the text of a JSON object, modelled as its
\* sequence of <<name, value>> members
RECURSIVE DumpsFrom(_, _)
DumpsFrom(d, i) ==
    IF i > Len(NameOrder) THEN <<>>
    ELSE (IF d[NameOrder[i]] # Absent THEN <<(<<NameOrder[i], d[NameOrder[i]]>>)>> ELSE <<>>)
         \o DumpsFrom(d, i + 1)

\* only the first cookie of the jar is written
dumps_first(d) ==
    [set |-> TRUE,
     text |-> IF DumpsFrom(d, 1) = <<>> THEN <<>> ELSE <<Head(DumpsFrom(d, 1))>>]

dumps(d) == [set |-> TRUE, text |-> DumpsFrom(d, 1)]
NoCookies == [set |-> FALSE, text |-> <<>>]

\* json.loads of such a text: a later member of the same name wins
RECURSIVE LoadsFrom(_, _)
LoadsFrom(text, d) ==
    IF text = <<>> THEN d
    ELSE LoadsFrom(Tail(text), [d EXCEPT ![Head(text)[1]] = Head(text)[2]])

\* str(user_data.cookies): the cookies field of the parser service's UserData
\* holds the JSON text it was given
str(cookies) == cookies.text

loads(cookies) == LoadsFrom(str(cookies), EmptyCookies)

\* ---------------------------------------------------------------- UserData
Credentials == {<<"l1", "w1">>, <<"l2", "w2">>}
UserIds == {"u1", "u2"}

NewUserData(id, login, password) ==
    [id |-> id, login |-> login, password |-> password,
     person_id |-> NoneVal, school_id |-> NoneVal, group_id |-> NoneVal,
     cookies |-> NoCookies]

\* --------------------------------------------------------------- feed page
\* the JSON fragment between the braces of the state assignment; a JSON null
\* is Python's None
BadJson ==
    [valid |-> FALSE, hasAnalytics |-> FALSE,
     personId |-> Missing, schoolId |-> Missing, groupId |-> Missing]
NoAnalytics == [BadJson EXCEPT !.valid = TRUE]
Analytics(p, s, g) ==
    [valid |-> TRUE, hasAnalytics |-> TRUE, personId |-> p, schoolId |-> s, groupId |-> g]

Fragments ==
    {BadJson, NoAnalytics}
    \cup {Analytics(p, s, g) : p \in {Missing, NoneVal, "p1"},
                               s \in {Missing, NoneVal, "s1"},
                               g \in {Missing, NoneVal, "g1"}}

OtherScript == [match |-> FALSE, fragment |-> BadJson]
StateScript(fragment) == [match |-> TRUE, fragment |-> fragment]

NoBodyPage == [hasBody |-> FALSE, scripts |-> <<>>]
\* a page-body element with n script blocks, the state assignment (if any)
\* in block pos
MkPage(n, pos, fragment) ==
    [hasBody |-> TRUE,
     scripts |-> [i \in 1..n |-> IF i = pos THEN StateScript(fragment) ELSE OtherScript]]

ScriptCounts == {0} \cup ((ScriptIndex - 1)..MaxScripts)
Pages ==
    {NoBodyPage}
    \cup {MkPage(n, 0, BadJson) : n \in ScriptCounts}
    \cup {MkPage(n, pos, f) : n \in ScriptCounts \ {0}, pos \in (ScriptIndex - 1)..MaxScripts, f \in Fragments}

\* the state assignment searched in every script block of the body
MatchAt(page) == {i \in 1..Len(page.scripts) : page.scripts[i].match}
ExtractAnyScript(user_data, cookies, page) ==
    IF ~page.hasBody THEN [exc |-> "AttributeError", user_data |-> user_data]
    ELSE IF MatchAt(page) = {} THEN [exc |-> "TypeError", user_data |-> user_data]
    ELSE LET f == page.scripts[CHOOSE i \in MatchAt(page) : \A j \in MatchAt(page) : i <= j].fragment
             ud1 == [user_data EXCEPT !.person_id = f.personId]
             ud2 == [ud1 EXCEPT !.school_id = f.schoolId]
             ud3 == [ud2 EXCEPT !.group_id = f.groupId]
         IN  IF ~f.valid THEN [exc |-> "JSONDecodeError", user_data |-> user_data]
             ELSE IF ~f.hasAnalytics THEN [exc |-> "KeyError", user_data |-> user_data]
             ELSE IF f.personId = Missing THEN [exc |-> "KeyError", user_data |-> user_data]
             ELSE IF f.schoolId = Missing THEN [exc |-> "KeyError", user_data |-> ud1]
             ELSE IF f.groupId = Missing THEN [exc |-> "KeyError", user_data |-> ud2]
             ELSE [exc |-> "", user_data |-> [ud3 EXCEPT !.cookies = dumps(cookies)]]

\* lines 200-211 of get_cookies_person_school_group_id: [exc, user_data];
\* exc = "" when the method returns user_data, otherwise the exception that
\* leaves the method, user_data being the object as mutated so far
Extract(user_data, cookies, page) ==
    IF ~page.hasBody THEN [exc |-> "AttributeError", user_data |-> user_data]
    ELSE IF Len(page.scripts) < ScriptIndex THEN [exc |-> "IndexError", user_data |-> user_data]
    ELSE LET script == page.scripts[ScriptIndex]
             f == script.fragment
             ud1 == [user_data EXCEPT !.person_id = f.personId]
             ud2 == [ud1 EXCEPT !.school_id = f.schoolId]
             ud3 == [ud2 EXCEPT !.group_id = f.groupId]
         IN  IF ~script.match THEN [exc |-> "TypeError", user_data |-> user_data]
             ELSE IF ~f.valid THEN [exc |-> "JSONDecodeError", user_data |-> user_data]
             ELSE IF ~f.hasAnalytics THEN [exc |-> "KeyError", user_data |-> user_data]
             ELSE IF f.personId = Missing THEN [exc |-> "KeyError", user_data |-> user_data]
             ELSE IF f.schoolId = Missing THEN [exc |-> "KeyError", user_data |-> ud1]
             ELSE IF f.groupId = Missing THEN [exc |-> "KeyError", user_data |-> ud2]
             ELSE [exc |-> "", user_data |-> [ud3 EXCEPT !.cookies = dumps(cookies)]]

\* ------------------------------------------------------ upstream responses
TransportExc(transport) ==
    IF transport = "timeout" THEN "TimeoutException" ELSE "ConnectError"

Response(transport, status, setCookies, page, payload, anchor, html) ==
    [transport |-> transport, status |-> status, setCookies |-> setCookies,
     page |-> page, payload |-> payload, anchor |-> anchor, html |-> html]

FailedResponse(transport) ==
    Response(transport, 0, EmptyCookies, NoBodyPage, <<>>, "none", "")

\* the login endpoint answers 200, or 401 when it rejects the credentials
LoginStatuses == {200, 401}

LoginResponses ==
    {FailedResponse(t) : t \in Transports \ {"ok"}}
    \cup {Response("ok", st, c, NoBodyPage, <<>>, "none", "") : st \in LoginStatuses, c \in CookieDicts}

\* cookies a feed response may set, and the pages a non-2xx answer may carry
FeedSetCookies ==
    {c \in CookieDicts : c[SST] \in {Absent, "x"} /\ c["session"] \in {Absent, "y"}}
ErrorPages == {NoBodyPage, MkPage(ScriptIndex, ScriptIndex, Analytics("p1", "s1", "g1"))}

FeedResponses ==
    {FailedResponse(t) : t \in Transports \ {"ok"}}
    \cup {Response("ok", st, c, pg, <<>>, "none", "") :
            st \in Statuses \ {200}, c \in FeedSetCookies, pg \in ErrorPages}
    \cup {Response("ok", 200, c, pg, <<>>, "none", "") : c \in FeedSetCookies, pg \in Pages}

\* the client returned with every cookie of the login response
get_registered_client_unsanitized(loginResp) ==
    StoreCookies(EmptyCookies, loginResp.setCookies)

\* Parser.__get_registered_client: the jar of the client it returns
get_registered_client(loginResp) ==
    DeleteCookie(StoreCookies(EmptyCookies, loginResp.setCookies), SST)

\* get_cookies_person_school_group_id from the feed response on:
\* [kind, exc, user_data], kind "raised" | "none" | "user_data"
AfterFeed(user_data, jar, feedResp) ==
    IF feedResp.transport # "ok"
    THEN [kind |-> "raised", exc |-> TransportExc(feedResp.transport), user_data |-> user_data]
    ELSE IF ~IsSuccess(feedResp.status)
    THEN [kind |-> "none", exc |-> "", user_data |-> user_data]
    ELSE LET cookies == StoreCookies(jar, feedResp.setCookies)
             e == Extract(user_data, cookies, feedResp.page)
         IN  IF e.exc # "" THEN [kind |-> "raised", exc |-> e.exc, user_data |-> e.user_data]
             ELSE [kind |-> "user_data", exc |-> "", user_data |-> e.user_data]

\* the whole of get_cookies_person_school_group_id
Authenticate(user_data, loginResp, feedResp) ==
    IF loginResp.transport # "ok"
    THEN [kind |-> "raised", exc |-> TransportExc(loginResp.transport), user_data |-> user_data]
    ELSE AfterFeed(user_data, get_registered_client(loginResp), feedResp)

\* --------------------------------------------------- marks and timetable
Anchors == {"none", "nohref", "href"}
Htmls == {"", "<table>"}
NoLessonsText == "no lessons this week"

\* the body of a non-2xx answer of the marks API
ErrorPayloads ==
    {<<>>, <<[name |-> "Math", works |-> <<(<<"5">>)>>, average |-> "4.5"]>>}

MarksResponses(shape) ==
    IF shape[1] = 0
    THEN {FailedResponse(t) : t \in Transports \ {"ok"}}
         \cup {Response("ok", st, EmptyCookies, NoBodyPage, pl, "none", "") :
                 st \in Statuses \ {200}, pl \in ErrorPayloads}
         \cup {Response("ok", 200, EmptyCookies, NoBodyPage, <<>>, "none", "")}
    ELSE {Response("ok", 200, EmptyCookies, NoBodyPage, pl, "none", "") : pl \in Payloads(shape)}

ScheduleResponses ==
    {FailedResponse(t) : t \in Transports \ {"ok"}}
    \cup {Response("ok", st, EmptyCookies, NoBodyPage, <<>>, a, "") : st \in Statuses, a \in Anchors}

PrintResponses ==
    {FailedResponse(t) : t \in Transports \ {"ok"}}
    \cup {Response("ok", st, EmptyCookies, NoBodyPage, <<>>, "none", h) : st \in Statuses, h \in Htmls}

\* the stored session a fetch is called with
SessionStates ==
    {[NewUserData("u1", "l1", "w1") EXCEPT !.person_id = "p1", !.school_id = "s1",
                                        !.group_id = "g1", !.cookies = dumps(c)] :
        c \in {[EmptyCookies EXCEPT !["session"] = "x"],
                 [EmptyCookies EXCEPT ![SST] = "x", !["session"] = "y"]}}

Request(url, cookies, timeout) == [url |-> url, cookies |-> cookies, timeout |-> timeout]

\* get_marks without raise_for_status
get_marks_unchecked(resp) ==
    IF resp.transport # "ok"
    THEN [kind |-> "raised", exc |-> TransportExc(resp.transport), marks |-> EmptyMarks]
    ELSE LET m == process_marks(resp.payload)
         IN  IF m.raised THEN [kind |-> "raised", exc |-> "KeyError", marks |-> EmptyMarks]
             ELSE [kind |-> "marks", exc |-> "", marks |-> m.marks]

\* Parser.get_marks from the response on: [kind, exc, marks]
get_marks(resp) ==
    IF resp.transport # "ok"
    THEN [kind |-> "raised", exc |-> TransportExc(resp.transport), marks |-> EmptyMarks]
    ELSE IF ~IsSuccess(resp.status)
    THEN [kind |-> "none", exc |-> "", marks |-> EmptyMarks]
    ELSE LET m == process_marks(resp.payload)
         IN  IF m.raised THEN [kind |-> "raised", exc |-> "KeyError", marks |-> EmptyMarks]
             ELSE [kind |-> "marks", exc |-> "", marks |-> m.marks]

\* get_timetable without the except TypeError clause
AfterScheduleUncaught(resp) ==
    IF resp.transport # "ok" THEN [kind |-> "raised", exc |-> TransportExc(resp.transport)]
    ELSE IF resp.anchor = "none" THEN [kind |-> "raised", exc |-> "TypeError"]
    ELSE IF resp.anchor = "nohref" THEN [kind |-> "raised", exc |-> "KeyError"]
    ELSE [kind |-> "get", exc |-> ""]

\* Parser.get_timetable after the schedule response: what the method does
\* next, [kind, exc], kind "raised" | "text" | "get" (send the second GET)
AfterSchedule(resp) ==
    IF resp.transport # "ok" THEN [kind |-> "raised", exc |-> TransportExc(resp.transport)]
    ELSE IF resp.anchor = "none" THEN [kind |-> "text", exc |-> "TypeError"]
    ELSE IF resp.anchor = "nohref" THEN [kind |-> "raised", exc |-> "KeyError"]
    ELSE [kind |-> "get", exc |-> ""]

\* Parser.get_timetable after the print-version response: [kind, exc, text]
AfterPrint(resp) ==
    IF resp.transport # "ok"
    THEN [kind |-> "raised", exc |-> TransportExc(resp.transport), text |-> ""]
    ELSE [kind |-> "text", exc |-> "", text |-> resp.html]

\* ------------------------------------------------------------------ state
VARIABLES
    pc,         \* position of the parser invocation
    op,         \* the operation invoked: "none" | "auth" | "marks" | "timetable"
    user_data,  \* the UserData object the operation was called with
    jar,        \* cookies of the HTTP client of authenticate
    sent,       \* requests sent by the invocation, in order
    resps,      \* responses received by the invocation, in order
    outcome,    \* [kind, exc]: how the invocation ended
    retval,     \* the value returned, when one was
    clientOpen, \* the HTTP client of the invocation is open
    store,      \* the user table of the controller service: id -> row
    reqs,       \* the requests of the controller service
    calls,      \* concurrent invocations of the parser: call -> its local state
    clients,    \* the cookie jars of the HTTP clients of the authentications
    msg,        \* the message the user service is handling
    steps,      \* the bot's next-step handlers: chat -> handler and its argument
    turn        \* the update the bot is processing

parserVars == <<pc, op, user_data, jar, sent, resps, outcome, retval, clientOpen>>
storeVars == <<store, reqs>>
concVars == <<calls, clients>>
userVars == <<msg>>
botVars == <<steps, turn>>
vars == <<pc, op, user_data, jar, sent, resps, outcome, retval, clientOpen, store, reqs, calls, clients,
          msg, steps, turn>>

Pending == [kind |-> "pending", exc |-> ""]
Ended(kind, exc) == [kind |-> kind, exc |-> exc]

NoRow == [exists |-> FALSE, row |-> NewUserData(NoneVal, "", "")]
Row(data) == [exists |-> TRUE, row |-> data]
ReqIds == 1..MaxRequests
Req(p, data, exists, success) == [pc |-> p, data |-> data, exists |-> exists, success |-> success]
NoRequest == Req("none", NewUserData(NoneVal, "", ""), "", "")

InitParser ==
    /\ pc = "idle"
    /\ op = "none"
    /\ user_data = NewUserData(NoneVal, "", "")
    /\ jar = EmptyCookies
    /\ sent = <<>>
    /\ resps = <<>>
    /\ outcome = Pending
    /\ retval = NoneVal
    /\ clientOpen = FALSE

InitStore ==
    /\ store = [u \in UserIds |-> NoRow]
    /\ reqs = [r \in ReqIds |-> NoRequest]

CallIds == 1..MaxCalls
NoCall ==
    [pc |-> "idle", op |-> "none", user_data |-> NewUserData(NoneVal, "", ""),
     sent |-> <<>>, resps |-> <<>>, outcome |-> Pending, retval |-> NoneVal]

InitConcurrent ==
    /\ calls = [i \in CallIds |-> NoCall]
    /\ clients = [i \in CallIds |-> EmptyCookies]

\* a reply of a controller: the dict with user_id and markup and either
\* messages (shape "base") or message and file_name (shape "file")
NoReply ==
    [shape |-> "none", user_id |-> NoneVal, messages |-> <<>>, message |-> "",
     file_name |-> "", markup |-> NoneVal]

\* the message in the hands of the user service: the sender, the command, the
\* request slot of the controller service it waits for, the reply it built
Msg(p, from, o, req, reply) == [pc |-> p, from |-> from, op |-> o, req |-> req, reply |-> reply]
NoMsg == Msg("idle", NoneVal, "none", 0, NoReply)

InitUser == msg = NoMsg

\* the answer of the controller to a request of the bot
NoAnswer == [transport |-> "none", status |-> 0, body |-> NoReply]

NoStep == [handler |-> "none", login |-> <<>>]
NoTurn ==
    [pc |-> "idle", from |-> NoneVal, has_text |-> FALSE, text |-> <<>>, path |-> "",
     login |-> <<>>, password |-> <<>>, answer |-> NoAnswer, data |-> NoReply,
     delivered |-> <<>>]

InitBot ==
    /\ steps = [u \in UserIds |-> NoStep]
    /\ turn = NoTurn

Init == InitParser /\ InitStore /\ InitConcurrent /\ InitUser /\ InitBot

\* ------------------------------------------------------- parser invocation
\* get_cookies_person_school_group_id is called: __get_registered_client
\* creates the client and sends the login POST (no timeout argument)
CallAuth(login, password) ==
    /\ pc = "idle"
    /\ op' = "auth"
    /\ user_data' = NewUserData(NoneVal, login, password)
    /\ sent' = <<Request("login", EmptyCookies, "default")>>
    /\ clientOpen' = TRUE
    /\ pc' = "login_post"
    /\ UNCHANGED <<jar, resps, outcome, retval, storeVars, concVars, userVars, botVars>>

\* the login POST ends: on a transport error the exception leaves the
\* method (the client is not closed on that path); otherwise dnevnik_sst is
\* deleted and the feed GET is sent
LoginResponse ==
    /\ pc = "login_post"
    /\ \E resp \in LoginResponses :
        /\ resps' = Append(resps, resp)
        /\ IF resp.transport # "ok"
           THEN /\ outcome' = Ended("raised", TransportExc(resp.transport))
                /\ pc' = "done"
                /\ UNCHANGED <<jar, sent>>
           ELSE /\ jar' = get_registered_client(resp)
                /\ sent' = Append(sent, Request("feed", jar', "configured"))
                /\ pc' = "feed_get"
                /\ UNCHANGED outcome
        /\ UNCHANGED <<op, user_data, retval, clientOpen, storeVars, concVars, userVars, botVars>>

\* the feed GET ends: status check, the client is closed (finally), cookie
\* capture, state extraction
FeedResponse ==
    /\ pc = "feed_get"
    /\ \E resp \in FeedResponses :
        /\ resps' = Append(resps, resp)
        /\ LET a == AfterFeed(user_data, jar, resp)
           IN  /\ outcome' = Ended(a.kind, a.exc)
               /\ user_data' = a.user_data
               /\ retval' = IF a.kind = "user_data" THEN a.user_data ELSE NoneVal
        /\ jar' = IF resp.transport = "ok" THEN StoreCookies(jar, resp.setCookies) ELSE jar
        /\ clientOpen' = FALSE
        /\ pc' = "done"
        /\ UNCHANGED <<op, sent, storeVars, concVars, userVars, botVars>>

\* get_marks is called: the marks GET is sent with the stored cookies
CallMarks(ud) ==
    /\ pc = "idle"
    /\ op' = "marks"
    /\ user_data' = ud
    /\ sent' = <<Request("marks", loads(ud.cookies), "configured")>>
    /\ clientOpen' = TRUE
    /\ pc' = "marks_get"
    /\ UNCHANGED <<jar, resps, outcome, retval, storeVars, concVars, userVars, botVars>>

MarksResponse ==
    /\ pc = "marks_get"
    /\ \E shape \in PayloadShapes : \E resp \in MarksResponses(shape) :
        /\ resps' = Append(resps, resp)
        /\ LET m == get_marks(resp)
           IN  /\ outcome' = Ended(m.kind, m.exc)
               /\ retval' = IF m.kind = "marks" THEN m.marks ELSE NoneVal
        /\ clientOpen' = FALSE
        /\ pc' = "done"
        /\ UNCHANGED <<op, user_data, jar, sent, storeVars, concVars, userVars, botVars>>

\* get_timetable is called: the schedule GET is sent
CallTimetable(ud) ==
    /\ pc = "idle"
    /\ op' = "timetable"
    /\ user_data' = ud
    /\ sent' = <<Request("schedule", loads(ud.cookies), "configured")>>
    /\ clientOpen' = TRUE
    /\ pc' = "schedule_get"
    /\ UNCHANGED <<jar, resps, outcome, retval, storeVars, concVars, userVars, botVars>>

\* the schedule GET ends: the print-version anchor is looked up and, when
\* found, its href is requested
ScheduleResponse ==
    /\ pc = "schedule_get"
    /\ \E resp \in ScheduleResponses :
        /\ resps' = Append(resps, resp)
        /\ LET a == AfterSchedule(resp)
           IN  IF a.kind = "get"
               THEN /\ sent' = Append(sent, Request("print", loads(user_data.cookies), "configured"))
                    /\ clientOpen' = TRUE
                    /\ pc' = "print_get"
                    /\ UNCHANGED <<outcome, retval>>
               ELSE /\ outcome' = Ended(a.kind, a.exc)
                    /\ retval' = IF a.kind = "text" THEN NoLessonsText ELSE NoneVal
                    /\ clientOpen' = FALSE
                    /\ pc' = "done"
                    /\ UNCHANGED sent
        /\ UNCHANGED <<op, user_data, jar, storeVars, concVars, userVars, botVars>>

PrintResponse ==
    /\ pc = "print_get"
    /\ \E resp \in PrintResponses :
        /\ resps' = Append(resps, resp)
        /\ LET a == AfterPrint(resp)
           IN  /\ outcome' = Ended(a.kind, a.exc)
               /\ retval' = IF a.kind = "text" THEN a.text ELSE NoneVal
        /\ clientOpen' = FALSE
        /\ pc' = "done"
        /\ UNCHANGED <<op, user_data, jar, sent, storeVars, concVars, userVars, botVars>>

NextParser ==
    \/ \E c \in Credentials : CallAuth(c[1], c[2])
    \/ LoginResponse
    \/ FeedResponse
    \/ \E ud \in SessionStates : CallMarks(ud)
    \/ MarksResponse
    \/ \E ud \in SessionStates : CallTimetable(ud)
    \/ ScheduleResponse
    \/ PrintResponse

SpecParser == Init /\ [][NextParser]_vars

\* ------------------------------------------------- controller service
\* upstream answers while the controller service registers users
GoodPage(p, s, g) == MkPage(ScriptIndex, ScriptIndex, Analytics(p, s, g))
SessionCookie(v) == [EmptyCookies EXCEPT !["session"] = v]

StoreLoginResponses ==
    {FailedResponse("timeout"), Response("ok", 200, EmptyCookies, NoBodyPage, <<>>, "none", "")}

StoreFeedResponses ==
    {FailedResponse("timeout"),
     Response("ok", 500, SessionCookie("x"), GoodPage("p1", "s1", "g1"), <<>>, "none", ""),
     Response("ok", 200, SessionCookie("x"), NoBodyPage, <<>>, "none", ""),
     Response("ok", 200, SessionCookie("x"), GoodPage("p1", "s1", "g1"), <<>>, "none", ""),
     Response("ok", 200, SessionCookie("y"), GoodPage("p2", "s2", "g2"), <<>>, "none", ""),
     Response("ok", 200, SessionCookie("x"), GoodPage("p1", "s1", NoneVal), <<>>, "none", ""),
     Response("ok", 200, SessionCookie("x"), GoodPage("p1", Missing, "g1"), <<>>, "none", "")}

\* parser service, Router.__verify_data_get_personal_data: the status it
\* answers for an outcome of the parser (an exception is a 500)
verify_data_get_personal_data(a) ==
    IF a.kind = "raised" THEN 500
    ELSE IF a.kind = "none" THEN 400
    ELSE 200

\* controller service, Api.verify_data_get_personal_data over __get_data:
\* [kind, user_data], kind "raised" (transport error), "none", "user_data"
ApiVerify(net, a) ==
    IF net # "ok" THEN [kind |-> "raised", user_data |-> a.user_data]
    ELSE IF ~IsSuccess(verify_data_get_personal_data(a)) THEN [kind |-> "none", user_data |-> a.user_data]
    ELSE [kind |-> "user_data", user_data |-> a.user_data]

\* only the credentials declared NOT NULL
ViolatesNotNullCredentials(data) ==
    \/ data.login = NoneVal
    \/ data.password = NoneVal

\* models/user.py: every column of the table is NOT NULL
ViolatesNotNull(data) ==
    \/ data.login = NoneVal
    \/ data.password = NoneVal
    \/ data.person_id = NoneVal
    \/ data.school_id = NoneVal
    \/ data.group_id = NoneVal
    \/ ~data.cookies.set

\* Database.user_exists: "True" | "False", "None" when the query failed
user_exists(table, data, fault) ==
    IF fault # "none" THEN "None"
    ELSE IF table[data.id].exists THEN "True" ELSE "False"

\* _create_operation under __execute(..., True): [result, table]
CreateOperation(table, data, fault) ==
    IF fault = "op" \/ table[data.id].exists \/ ViolatesNotNull(data)
    THEN [result |-> "False", table |-> table]
    ELSE IF fault = "commit" THEN [result |-> "None", table |-> table]
    ELSE [result |-> "True", table |-> [table EXCEPT ![data.id] = Row(data)]]

\* an update that sets the session columns and leaves login and password
UpdateOperationSessionOnly(table, data, fault) ==
    IF fault = "op" \/ (table[data.id].exists /\ ViolatesNotNull(data))
    THEN [result |-> "False", table |-> table]
    ELSE IF fault = "commit" THEN [result |-> "None", table |-> table]
    ELSE [result |-> "True",
          table |-> [u \in UserIds |->
                        IF u = data.id /\ table[u].exists
                        THEN Row([data EXCEPT !.login = table[u].row.login,
                                              !.password = table[u].row.password])
                        ELSE table[u]]]

\* _update_operation under __execute(..., True): [result, table]
UpdateOperation(table, data, fault) ==
    IF fault = "op" \/ (table[data.id].exists /\ ViolatesNotNull(data))
    THEN [result |-> "False", table |-> table]
    ELSE IF fault = "commit" THEN [result |-> "None", table |-> table]
    ELSE [result |-> "True",
          table |-> [u \in UserIds |->
                        IF u = data.id /\ table[u].exists THEN Row(data) ELSE table[u]]]

DbFaults == {"none", "op", "commit"}

\* a change_create_data request arrives at the controller service
ReceiveChangeCreateData(r, id, login, password) ==
    /\ reqs[r].pc = "none"
    /\ reqs' = [reqs EXCEPT ![r] = Req("verify", NewUserData(id, login, password), "", "")]
    /\ UNCHANGED <<store, parserVars, concVars, userVars, botVars>>

\* Router.__change_create_data up to the answer of the parser service
change_create_data(r, net, loginResp, feedResp) ==
    /\ reqs[r].pc = "verify"
    /\ LET data == reqs[r].data
           v == ApiVerify(net, Authenticate(data, loginResp, feedResp))
       IN  reqs' = [reqs EXCEPT ![r] =
                IF v.kind = "raised" THEN Req("done", NewUserData(data.id, "", ""), "", "error")
                ELSE IF v.kind = "none" THEN Req("done", NewUserData(data.id, "", ""), "", "False")
                ELSE Req("exists", v.user_data, "", "")]
    /\ UNCHANGED <<store, parserVars, concVars, userVars, botVars>>

\* Database.create_update_user: the existence check
CheckUserExists(r, fault) ==
    /\ reqs[r].pc = "exists"
    /\ reqs' = [reqs EXCEPT ![r] = Req("write", reqs[r].data, user_exists(store, reqs[r].data, fault), "")]
    /\ UNCHANGED <<store, parserVars, concVars, userVars, botVars>>

\* Database.create_update_user: the insert or the update, and the reply
create_update_user(r, fault) ==
    /\ reqs[r].pc = "write"
    /\ LET data == reqs[r].data
           w == IF reqs[r].exists # "True"
                THEN CreateOperation(store, data, fault)
                ELSE UpdateOperation(store, data, fault)
       IN  /\ store' = w.table
           /\ reqs' = [reqs EXCEPT ![r] = Req("done", NewUserData(data.id, "", ""), "", w.result)]
    /\ UNCHANGED <<parserVars, concVars, userVars, botVars>>

NextStore ==
    \/ \E r \in ReqIds, id \in UserIds, c \in Credentials : ReceiveChangeCreateData(r, id, c[1], c[2])
    \/ \E r \in ReqIds, net \in {"ok", "timeout"}, lr \in StoreLoginResponses, fr \in StoreFeedResponses :
          change_create_data(r, net, lr, fr)
    \/ \E r \in ReqIds, fault \in {"none", "op"} : CheckUserExists(r, fault)
    \/ \E r \in ReqIds, fault \in DbFaults : create_update_user(r, fault)

SpecStore == Init /\ [][NextStore]_vars


\* ------------------------------------ controller service: marks, timetable
\* upstream answers while the controller service serves marks and timetables
StoreMarksResponses ==
    {FailedResponse("timeout"),
     Response("ok", 500, EmptyCookies, NoBodyPage, <<>>, "none", ""),
     Response("ok", 200, EmptyCookies, NoBodyPage, <<>>, "none", ""),
     Response("ok", 200, EmptyCookies, NoBodyPage,
              <<[name |-> "Math", works |-> <<(<<"5">>)>>, average |-> "4.5"]>>, "none", "")}

StoreScheduleResponses ==
    {FailedResponse("timeout"),
     Response("ok", 200, EmptyCookies, NoBodyPage, <<>>, "none", ""),
     Response("ok", 200, EmptyCookies, NoBodyPage, <<>>, "href", "")}

StorePrintResponses ==
    {Response("ok", 200, EmptyCookies, NoBodyPage, <<>>, "none", h) : h \in Htmls}

\* the whole of Parser.get_timetable: [kind, exc, text]
get_timetable(scheduleResp, printResp) ==
    LET a == AfterSchedule(scheduleResp)
    IN  IF a.kind = "get" THEN AfterPrint(printResp)
        ELSE [kind |-> a.kind, exc |-> a.exc,
              text |-> IF a.kind = "text" THEN NoLessonsText ELSE ""]

\* parser service, Router.__get_marks: the status it answers (an exception is
\* a 500, an empty dict is "not content")
router_get_marks(m) ==
    IF m.kind = "raised" THEN 500
    ELSE IF m.kind = "none" \/ m.marks = EmptyMarks THEN 400
    ELSE 200

\* parser service, Router.__get_timetable
router_get_timetable(t) ==
    IF t.kind = "raised" THEN 500
    ELSE IF t.kind = "none" \/ t.text = "" THEN 400
    ELSE 200

\* controller service, Api.get_marks / Api.get_timetable over __get_data and
\* the reply of the handler: "error" (transport error), "empty", "content"
ApiFetch(net, status) ==
    IF net # "ok" THEN "error"
    ELSE IF ~IsSuccess(status) THEN "empty"
    ELSE "content"

\* a user that is not stored is answered as a blank record
get_user_or_blank(table, data, fault) ==
    IF fault # "none" \/ ~table[data.id].exists THEN Row(data) ELSE table[data.id]

\* Database.get_user: the row, NoRow when there is none or the query failed
get_user(table, data, fault) ==
    IF fault # "none" \/ ~table[data.id].exists THEN NoRow ELSE table[data.id]

\* a get_marks request arrives at the controller service
ReceiveGetMarks(r, id) ==
    /\ reqs[r].pc = "none"
    /\ reqs' = [reqs EXCEPT ![r] = Req("marks_get_user", NewUserData(id, "", ""), "", "")]
    /\ UNCHANGED <<store, parserVars, concVars, userVars, botVars>>

\* a get_timetable request arrives at the controller service
ReceiveGetTimetable(r, id) ==
    /\ reqs[r].pc = "none"
    /\ reqs' = [reqs EXCEPT ![r] = Req("timetable_get_user", NewUserData(id, "", ""), "", "")]
    /\ UNCHANGED <<store, parserVars, concVars, userVars, botVars>>

\* Router.__get_marks / __get_timetable: the stored user is read
FetchGetUser(r, fault) ==
    /\ reqs[r].pc \in {"marks_get_user", "timetable_get_user"}
    /\ LET u == get_user(store, reqs[r].data, fault)
       IN  reqs' = [reqs EXCEPT ![r] =
                IF ~u.exists THEN Req("done", reqs[r].data, "", "empty")
                ELSE Req(IF reqs[r].pc = "marks_get_user" THEN "marks_api" ELSE "timetable_api",
                         u.row, "", "")]
    /\ UNCHANGED <<store, parserVars, concVars, userVars, botVars>>

\* a failed fetch forgets the stored session
FetchMarksDropping(r, net, resp) ==
    /\ reqs[r].pc = "marks_api"
    /\ LET result == ApiFetch(net, router_get_marks(get_marks(resp)))
       IN  /\ reqs' = [reqs EXCEPT ![r] = Req("done", reqs[r].data, "", result)]
           /\ store' = IF result = "content" THEN store
                        ELSE [store EXCEPT ![reqs[r].data.id] = NoRow]
    /\ UNCHANGED <<parserVars, concVars, userVars, botVars>>

\* Router.__get_marks: the parser service is asked and the reply is built
FetchMarks(r, net, resp) ==
    /\ reqs[r].pc = "marks_api"
    /\ reqs' = [reqs EXCEPT ![r] =
            Req("done", reqs[r].data, "", ApiFetch(net, router_get_marks(get_marks(resp))))]
    /\ UNCHANGED <<store, parserVars, concVars, userVars, botVars>>

\* Router.__get_timetable: the parser service is asked and the reply is built
FetchTimetable(r, net, scheduleResp, printResp) ==
    /\ reqs[r].pc = "timetable_api"
    /\ reqs' = [reqs EXCEPT ![r] =
            Req("done", reqs[r].data, "",
                ApiFetch(net, router_get_timetable(get_timetable(scheduleResp, printResp))))]
    /\ UNCHANGED <<store, parserVars, concVars, userVars, botVars>>

NextFetch ==
    \/ \E r \in ReqIds, id \in UserIds, c \in Credentials : ReceiveChangeCreateData(r, id, c[1], c[2])
    \/ \E r \in ReqIds, net \in {"ok", "timeout"}, lr \in StoreLoginResponses, fr \in StoreFeedResponses :
          change_create_data(r, net, lr, fr)
    \/ \E r \in ReqIds, fault \in {"none", "op"} : CheckUserExists(r, fault)
    \/ \E r \in ReqIds, fault \in DbFaults : create_update_user(r, fault)
    \/ \E r \in ReqIds, id \in UserIds : ReceiveGetMarks(r, id)
    \/ \E r \in ReqIds, id \in UserIds : ReceiveGetTimetable(r, id)
    \/ \E r \in ReqIds, fault \in {"none", "op"} : FetchGetUser(r, fault)
    \/ \E r \in ReqIds, net \in {"ok", "timeout"}, resp \in StoreMarksResponses : FetchMarks(r, net, resp)
    \/ \E r \in ReqIds, net \in {"ok", "timeout"}, sr \in StoreScheduleResponses, pr \in StorePrintResponses :
          FetchTimetable(r, net, sr, pr)

SpecFetch == Init /\ [][NextFetch]_vars

\* ------------------------------------------- concurrent parser invocations
\* the user of call i: credentials, identifiers and cookie value
LoginOf(i) == "l" \o ToString(i)
PasswordOf(i) == "w" \o ToString(i)
PersonOf(i) == "p" \o ToString(i)
SchoolOf(i) == "s" \o ToString(i)
GroupOf(i) == "g" \o ToString(i)
CookieOf(i) == "c" \o ToString(i)

\* the stored session of the user of call i
SessionOf(i) ==
    [NewUserData(NoneVal, LoginOf(i), PasswordOf(i)) EXCEPT
        !.person_id = PersonOf(i), !.school_id = SchoolOf(i), !.group_id = GroupOf(i),
        !.cookies = dumps([EmptyCookies EXCEPT !["session"] = CookieOf(i)])]

\* what the upstream answers to the requests of call i
LoginResponsesOf(i) ==
    {FailedResponse("timeout"),
     Response("ok", 200, [EmptyCookies EXCEPT !["session"] = CookieOf(i)], NoBodyPage, <<>>, "none", ""),
     Response("ok", 200, [n \in CookieNames |-> CookieOf(i)], NoBodyPage, <<>>, "none", "")}

FeedResponsesOf(i) ==
    {Response("ok", 500, EmptyCookies, NoBodyPage, <<>>, "none", ""),
     Response("ok", 200, EmptyCookies, GoodPage(PersonOf(i), SchoolOf(i), GroupOf(i)), <<>>, "none", ""),
     Response("ok", 200, [EmptyCookies EXCEPT ![SST] = CookieOf(i)],
              GoodPage(PersonOf(i), SchoolOf(i), GroupOf(i)), <<>>, "none", "")}

MarksResponsesOf(i) ==
    {Response("ok", 500, EmptyCookies, NoBodyPage, <<>>, "none", ""),
     Response("ok", 200, EmptyCookies, NoBodyPage,
              <<[name |-> "Math", works |-> <<(<<"5">>), (<<"4">>)>>, average |-> "4.5"]>>, "none", "")}

ScheduleResponsesOf(i) ==
    {Response("ok", 200, EmptyCookies, NoBodyPage, <<>>, a, "") : a \in {"none", "href"}}

PrintResponsesOf(i) ==
    {FailedResponse("timeout"), Response("ok", 200, EmptyCookies, NoBodyPage, <<>>, "none", "<table>")}

\* one client kept by the Parser instance and used by every call
SharedClient(i) == 1

\* client = httpx.AsyncClient(): every authentication creates its own client
NewClient(i) == i

EndCall(call, kind, exc, value) ==
    [call EXCEPT !.pc = "done", !.outcome = Ended(kind, exc), !.retval = value]

\* get_cookies_person_school_group_id is called by call i
auth_call(i) ==
    /\ calls[i].pc = "idle"
    /\ calls' = [calls EXCEPT ![i] =
            [@ EXCEPT !.pc = "login_post", !.op = "auth",
                      !.user_data = NewUserData(NoneVal, LoginOf(i), PasswordOf(i)),
                      !.sent = <<Request("login", EmptyCookies, "default")>>]]
    /\ clients' = [clients EXCEPT ![NewClient(i)] = EmptyCookies]
    /\ UNCHANGED <<parserVars, storeVars, userVars, botVars>>

\* the login POST of call i ends
auth_login(i) ==
    /\ calls[i].pc = "login_post"
    /\ \E resp \in LoginResponsesOf(i) :
        IF resp.transport # "ok"
        THEN /\ calls' = [calls EXCEPT ![i] =
                    EndCall([@ EXCEPT !.resps = Append(@, resp)],
                            "raised", TransportExc(resp.transport), NoneVal)]
             /\ UNCHANGED clients
        ELSE /\ clients' = [clients EXCEPT ![NewClient(i)] =
                    DeleteCookie(StoreCookies(@, resp.setCookies), SST)]
             /\ calls' = [calls EXCEPT ![i] =
                    [@ EXCEPT !.pc = "feed_get", !.resps = Append(@, resp),
                              !.sent = Append(@, Request("feed", clients'[NewClient(i)], "configured"))]]
    /\ UNCHANGED <<parserVars, storeVars, userVars, botVars>>

\* the feed GET of call i ends
auth_feed(i) ==
    /\ calls[i].pc = "feed_get"
    /\ \E resp \in FeedResponsesOf(i) :
        LET a == AfterFeed(calls[i].user_data, clients[NewClient(i)], resp)
        IN  /\ calls' = [calls EXCEPT ![i] =
                   EndCall([@ EXCEPT !.resps = Append(@, resp), !.user_data = a.user_data],
                           a.kind, a.exc, IF a.kind = "user_data" THEN a.user_data ELSE NoneVal)]
            /\ clients' = [clients EXCEPT ![NewClient(i)] = StoreCookies(@, resp.setCookies)]
    /\ UNCHANGED <<parserVars, storeVars, userVars, botVars>>

\* get_marks is called by call i
marks_call(i) ==
    /\ calls[i].pc = "idle"
    /\ calls' = [calls EXCEPT ![i] =
            [@ EXCEPT !.pc = "marks_get", !.op = "marks", !.user_data = SessionOf(i),
                      !.sent = <<Request("marks", loads(SessionOf(i).cookies), "configured")>>]]
    /\ UNCHANGED <<clients, parserVars, storeVars, userVars, botVars>>

marks_answer(i) ==
    /\ calls[i].pc = "marks_get"
    /\ \E resp \in MarksResponsesOf(i) :
        LET m == get_marks(resp)
        IN  calls' = [calls EXCEPT ![i] =
                EndCall([@ EXCEPT !.resps = Append(@, resp)],
                        m.kind, m.exc, IF m.kind = "marks" THEN m.marks ELSE NoneVal)]
    /\ UNCHANGED <<clients, parserVars, storeVars, userVars, botVars>>

\* get_timetable is called by call i
timetable_call(i) ==
    /\ calls[i].pc = "idle"
    /\ calls' = [calls EXCEPT ![i] =
            [@ EXCEPT !.pc = "schedule_get", !.op = "timetable", !.user_data = SessionOf(i),
                      !.sent = <<Request("schedule", loads(SessionOf(i).cookies), "configured")>>]]
    /\ UNCHANGED <<clients, parserVars, storeVars, userVars, botVars>>

timetable_schedule(i) ==
    /\ calls[i].pc = "schedule_get"
    /\ \E resp \in ScheduleResponsesOf(i) :
        LET a == AfterSchedule(resp)
        IN  calls' = [calls EXCEPT ![i] =
                IF a.kind = "get"
                THEN [@ EXCEPT !.pc = "print_get", !.resps = Append(@, resp),
                               !.sent = Append(@, Request("print", loads(calls[i].user_data.cookies),
                                                          "configured"))]
                ELSE EndCall([@ EXCEPT !.resps = Append(@, resp)], a.kind, a.exc,
                             IF a.kind = "text" THEN NoLessonsText ELSE NoneVal)]
    /\ UNCHANGED <<clients, parserVars, storeVars, userVars, botVars>>

timetable_print(i) ==
    /\ calls[i].pc = "print_get"
    /\ \E resp \in PrintResponsesOf(i) :
        LET a == AfterPrint(resp)
        IN  calls' = [calls EXCEPT ![i] =
                EndCall([@ EXCEPT !.resps = Append(@, resp)], a.kind, a.exc,
                        IF a.kind = "text" THEN a.text ELSE NoneVal)]
    /\ UNCHANGED <<clients, parserVars, storeVars, userVars, botVars>>

NextConcurrent ==
    \/ \E i \in CallIds : auth_call(i)
    \/ \E i \in CallIds : auth_login(i)
    \/ \E i \in CallIds : auth_feed(i)
    \/ \E i \in CallIds : marks_call(i)
    \/ \E i \in CallIds : marks_answer(i)
    \/ \E i \in CallIds : timetable_call(i)
    \/ \E i \in CallIds : timetable_schedule(i)
    \/ \E i \in CallIds : timetable_print(i)

SpecConcurrent == Init /\ [][NextConcurrent]_vars

\* ------------------------------------------------- controllers: the replies
\* a reply that names no recipient
base_ans_unaddressed(user_id, message, markup) ==
    [shape |-> "base", user_id |-> NoneVal, messages |-> <<message>>, message |-> "",
     file_name |-> "", markup |-> markup]

\* Controller.__base_ans
base_ans(user_id, message, markup) ==
    [shape |-> "base", user_id |-> user_id, messages |-> <<message>>, message |-> "",
     file_name |-> "", markup |-> markup]

\* Controller.__file_ans
file_ans(user_id, message, file_name, markup) ==
    [shape |-> "file", user_id |-> user_id, messages |-> <<>>, message |-> message,
     file_name |-> file_name, markup |-> markup]

\* Controller.__unregistered
unregistered(user_id, markup) == base_ans(user_id, "unregistered.tfb", markup)

\* Controller.__server_problems
server_problems(user_id, markup) == base_ans(user_id, "server_problems.tfd", markup)

TimetableFileName == "timetable.html"

\* user service, Controller.start; response is [kind, value] with kind "none"
\* when the client returned None and value the user_exists field otherwise
Controller_start(from, response) ==
    IF response.kind = "none" THEN server_problems(from, NoneVal)
    ELSE IF response.value = "True" THEN base_ans(from, "registered.tfb", "all")
    ELSE unregistered(from, "registration")

\* user service, Controller.help
Controller_help(from) == base_ans(from, "help.tfb", NoneVal)

\* user service, Controller.change_create_data; value is the success field
Controller_change_create_data(from, response) ==
    IF response.kind = "none" THEN server_problems(from, NoneVal)
    ELSE IF response.value = "True" THEN base_ans(from, "data_saved.tfb", "all")
    ELSE base_ans(from, "incorrect_data.tfb", "change_data")

\* user service, Controller.show_data; data is [kind, login, password]
Controller_show_data(from, data) ==
    IF data.kind = "none" THEN server_problems(from, NoneVal)
    ELSE IF data.login = NoneVal \/ data.password = NoneVal THEN unregistered(from, NoneVal)
    ELSE base_ans(from, "user_data.tfd", NoneVal)

\* user service, Controller.show_marks; value is the marks field
Controller_show_marks(from, data) ==
    IF data.kind = "none" THEN server_problems(from, NoneVal)
    ELSE IF data.value = NoneVal THEN unregistered(from, NoneVal)
    ELSE base_ans(from, "show_marks.tfb", NoneVal)

\* user service, Controller.show_timetable; value is the timetable field
Controller_show_timetable(from, data) ==
    IF data.kind = "none" THEN server_problems(from, NoneVal)
    ELSE IF data.value = NoneVal THEN unregistered(from, NoneVal)
    ELSE file_ans(from, data.value, TimetableFileName, NoneVal)

\* the controller with its own database (controller/src/async_controller.py):
\* exists is the answer of db.user_exists, data is [truthy, timetable], the
\* answer of its parser client
async_start(from, exists) ==
    IF exists THEN base_ans(from, "registered.tfb", "all")
    ELSE unregistered(from, "registration")

async_help(from) == base_ans(from, "help.tfb", NoneVal)

async_change_create_data(from, data) ==
    IF ~data.truthy THEN base_ans(from, "incorrect_data.tfb", "change_data")
    ELSE base_ans(from, "data_saved.tfb", "all")

async_show_data(from, exists) ==
    IF ~exists THEN unregistered(from, "change_data")
    ELSE base_ans(from, "user_data.tfd", NoneVal)

async_show_marks(from, exists, data) ==
    IF ~exists THEN unregistered(from, NoneVal)
    ELSE IF ~data.truthy THEN unregistered(from, NoneVal)
    ELSE base_ans(from, "show_marks.tfb", NoneVal)

async_show_timetable(from, exists, data) ==
    IF ~exists THEN unregistered(from, NoneVal)
    ELSE IF ~data.truthy THEN unregistered(from, NoneVal)
    ELSE file_ans(from, data.timetable, TimetableFileName, NoneVal)

\* the answers of the parser client of that controller
ClientData == {[truthy |-> FALSE, timetable |-> ""]} \cup
              {[truthy |-> TRUE, timetable |-> h] : h \in Htmls \cup {NoLessonsText}}

\* ------------------------------------------------------------ user service
\* user service, Api.__get_data: "raised" (a transport error is not caught),
\* "none" (non-2xx), "model" (the JSON body, validated by the caller)
UserApi(net, status) ==
    IF net # "ok" THEN "raised"
    ELSE IF ~IsSuccess(status) THEN "none"
    ELSE "model"

\* the commands that need no request slot of the controller service, and
\* those whose handler of the controller service takes several steps
DirectOps == {"start", "help", "show_data"}
ServiceOps == {"change_create_data", "show_marks", "show_timetable"}

\* Router.__start / __help / __show_data: a message from id reaches the handler
UserReceive(o, id) ==
    /\ msg.pc = "idle"
    /\ msg' = Msg("called", id, o, 0, NoReply)
    /\ UNCHANGED <<parserVars, storeVars, concVars, botVars>>

\* Router.__change_create_data / __show_marks / __show_timetable: a message
\* from id reaches the handler and its request reaches the controller service
UserCall(o, id, login, password, r) ==
    /\ msg.pc = "idle"
    /\ reqs[r].pc = "none"
    /\ msg' = Msg("called", id, o, r, NoReply)
    /\ reqs' = [reqs EXCEPT ![r] =
            IF o = "change_create_data" THEN Req("verify", NewUserData(id, login, password), "", "")
            ELSE IF o = "show_marks" THEN Req("marks_get_user", NewUserData(id, "", ""), "", "")
            ELSE Req("timetable_get_user", NewUserData(id, "", ""), "", "")]
    /\ UNCHANGED <<store, parserVars, concVars, botVars>>

\* the handler ends: with a reply, or with the exception of the client
Replied(a, reply) ==
    IF a = "raised" THEN Msg("raised", msg.from, msg.op, 0, NoReply)
    ELSE Msg("replied", msg.from, msg.op, 0, reply)

\* Controller.start: the controller service answers user_exists with 200 and
\* the answer of Database.user_exists
UserStart(net, fault) ==
    /\ msg.pc = "called" /\ msg.op = "start"
    /\ LET a == UserApi(net, 200)
           response == [kind |-> a,
                        value |-> user_exists(store, NewUserData(msg.from, "", ""), fault)]
       IN  msg' = Replied(a, Controller_start(msg.from, response))
    /\ UNCHANGED <<parserVars, storeVars, concVars, botVars>>

\* Controller.help
UserHelp ==
    /\ msg.pc = "called" /\ msg.op = "help"
    /\ msg' = Replied("model", Controller_help(msg.from))
    /\ UNCHANGED <<parserVars, storeVars, concVars, botVars>>

\* Controller.show_data: the controller service has no get_user_data route
\* and answers 404
UserShowData(net) ==
    /\ msg.pc = "called" /\ msg.op = "show_data"
    /\ LET a == UserApi(net, 404)
           data == [kind |-> a, login |-> NoneVal, password |-> NoneVal]
       IN  msg' = Replied(a, Controller_show_data(msg.from, data))
    /\ UNCHANGED <<parserVars, storeVars, concVars, botVars>>

\* Controller.change_create_data / show_marks / show_timetable: the request
\* at the controller service is over (500 when its handler raised, else 200
\* with the model it dumped) and the reply is built
UserService(net) ==
    /\ msg.pc = "called" /\ msg.op \in ServiceOps
    /\ reqs[msg.req].pc = "done"
    /\ LET success == reqs[msg.req].success
           a == UserApi(net, IF success = "error" THEN 500 ELSE 200)
           response == [kind |-> a,
                        value |-> IF success \in {"True", "False", "None"} THEN success
                                  ELSE IF success # "content" THEN NoneVal
                                  ELSE IF msg.op = "show_marks" THEN "marks"
                                  ELSE "<table>"]
       IN  msg' = Replied(a, IF msg.op = "change_create_data"
                             THEN Controller_change_create_data(msg.from, response)
                             ELSE IF msg.op = "show_marks"
                             THEN Controller_show_marks(msg.from, response)
                             ELSE Controller_show_timetable(msg.from, response))
    /\ reqs' = [reqs EXCEPT ![msg.req] = NoRequest]
    /\ UNCHANGED <<store, parserVars, concVars, botVars>>

\* the reply went out; the service takes the next message
UserFinish ==
    /\ msg.pc \in {"replied", "raised"}
    /\ msg' = NoMsg
    /\ UNCHANGED <<parserVars, storeVars, concVars, botVars>>

NextUser ==
    \/ \E o \in DirectOps, id \in UserIds : UserReceive(o, id)
    \/ \E o \in ServiceOps, id \in UserIds, c \in Credentials, r \in ReqIds :
          UserCall(o, id, c[1], c[2], r)
    \/ \E net \in {"ok", "timeout"}, fault \in {"none", "op"} : UserStart(net, fault)
    \/ UserHelp
    \/ \E net \in {"ok", "timeout"} : UserShowData(net)
    \/ \E net \in {"ok", "timeout"} : UserService(net)
    \/ UserFinish
    \/ \E r \in ReqIds, net \in {"ok", "timeout"}, lr \in StoreLoginResponses, fr \in StoreFeedResponses :
          change_create_data(r, net, lr, fr)
    \/ \E r \in ReqIds, fault \in {"none", "op"} : CheckUserExists(r, fault)
    \/ \E r \in ReqIds, fault \in DbFaults : create_update_user(r, fault)
    \/ \E r \in ReqIds, fault \in {"none", "op"} : FetchGetUser(r, fault)
    \/ \E r \in ReqIds, net \in {"ok", "timeout"}, resp \in StoreMarksResponses : FetchMarks(r, net, resp)
    \/ \E r \in ReqIds, net \in {"ok", "timeout"}, sr \in StoreScheduleResponses, pr \in StorePrintResponses :
          FetchTimetable(r, net, sr, pr)

SpecUser == Init /\ [][NextUser]_vars

\* ------------------------------------------------------------------ the bot
\* a text is the sequence of its characters; a command or a button caption
\* counts as one character
Blank == " "
Letters == {Blank, "a"}

RECURSIVE TextsUpTo(_)
TextsUpTo(n) ==
    IF n = 0 THEN {<<>>}
    ELSE LET shorter == TextsUpTo(n - 1)
         IN  shorter \cup {Append(t, c) : t \in shorter, c \in Letters}

\* the commands registered in TgBot.run and the captions of TgBot.__commands
\* ("Nachat registraciyu", "Izmenit dannye", "Moi dannye", "Ocenki",
\* "Raspisanie", "Pomosch" stand for the Russian captions)
SlashCommands == {"/start", "/help", "/show_data", "/change_data", "/grades", "/timetable"}
Captions == {"Nachat registraciyu", "Izmenit dannye", "Moi dannye", "Ocenki", "Raspisanie", "Pomosch"}

\* the texts users send
Texts == TextsUpTo(MaxText) \cup {<<c>> : c \in SlashCommands \cup Captions}

\* str.strip
RECURSIVE lstrip(_)
lstrip(text) ==
    IF text # <<>> /\ Head(text) = Blank THEN lstrip(Tail(text)) ELSE text

strip(text) == Reverse(lstrip(Reverse(lstrip(text))))

\* telebot: the text carries command c (it starts with "/", and its first
\* word is the command)
IsCommand(text, c) ==
    /\ text # <<>> /\ Head(text) = c
    /\ Len(text) = 1 \/ text[2] = Blank

\* TgBot.run and TgBot.__text_messages: the handler a text is dispatched to,
\* named by the controller path it asks; "dialogue" is __change_create_data
\* without credentials, "unknown" the fallback of __text_messages
HandlerOf(text) ==
    IF IsCommand(text, "/start") THEN "start"
    ELSE IF IsCommand(text, "/help") THEN "help"
    ELSE IF IsCommand(text, "/show_data") THEN "show_data"
    ELSE IF IsCommand(text, "/change_data") THEN "dialogue"
    ELSE IF IsCommand(text, "/grades") THEN "show_marks"
    ELSE IF IsCommand(text, "/timetable") THEN "show_timetable"
    ELSE IF text \in {<<"Nachat registraciyu">>, <<"Izmenit dannye">>} THEN "dialogue"
    ELSE IF text = <<"Moi dannye">> THEN "show_data"
    ELSE IF text = <<"Ocenki">> THEN "show_marks"
    ELSE IF text = <<"Raspisanie">> THEN "show_timetable"
    ELSE IF text = <<"Pomosch">> THEN "help"
    ELSE "unknown"

Turn(p, from, has_text, text, path, login, password, answer, data, delivered) ==
    [pc |-> p, from |-> from, has_text |-> has_text, text |-> text, path |-> path,
     login |-> login, password |-> password, answer |-> answer, data |-> data,
     delivered |-> delivered]

\* TeleBot.send_message / send_document as seen by the user
Message(chat, text, markup) ==
    [chat |-> chat, kind |-> "message", text |-> text, file_name |-> "", markup |-> markup]
Document(chat, text, file_name, markup) ==
    [chat |-> chat, kind |-> "document", text |-> text, file_name |-> file_name, markup |-> markup]

AskLogin == "Vvedite login:"
AskPassword == "Vvedite parol:"

\* Api.__error_message
error_message(from) ==
    [shape |-> "base", user_id |-> from, messages |-> <<"server problems, try later">>,
     message |-> "", file_name |-> "", markup |-> NoneVal]

\* a body that is not JSON
NotJson == [NoReply EXCEPT !.shape = "notjson"]

\* the client without raise_for_status
get_data_unchecked(from, answer) ==
    IF answer.transport # "ok" THEN error_message(from)
    ELSE IF answer.body.shape = "notjson" THEN error_message(from)
    ELSE answer.body

\* Api.__get_data: requests.post raises a RequestException when the controller
\* is unreachable or times out, raise_for_status raises for 4xx and 5xx,
\* response.json() raises for a body that is not JSON; all are caught
get_data(from, answer) ==
    IF answer.transport # "ok" THEN error_message(from)
    ELSE IF answer.status >= 400 THEN error_message(from)
    ELSE IF answer.body.shape = "notjson" THEN error_message(from)
    ELSE answer.body

\* what the client of a controller can hand to its command
ApiModels == [kind : {"none", "model"}, value : {NoneVal, "True", "False", "marks", "<table>"}]

\* the replies the controllers build for sender u on path p
ControllerReplies(p, u) ==
    IF p = "start"
    THEN {Controller_start(u, r) : r \in ApiModels} \cup {async_start(u, e) : e \in BOOLEAN}
    ELSE IF p = "help"
    THEN {Controller_help(u), async_help(u)}
    ELSE IF p = "change_create_data"
    THEN {Controller_change_create_data(u, r) : r \in ApiModels}
         \cup {async_change_create_data(u, d) : d \in ClientData}
    ELSE IF p = "show_data"
    THEN {Controller_show_data(u, [kind |-> k, login |-> l, password |-> NoneVal]) :
              k \in {"none", "model"}, l \in {NoneVal, "l1"}}
         \cup {async_show_data(u, e) : e \in BOOLEAN}
    ELSE IF p = "show_marks"
    THEN {Controller_show_marks(u, r) : r \in ApiModels}
         \cup {async_show_marks(u, e, d) : e \in BOOLEAN, d \in ClientData}
    ELSE {Controller_show_timetable(u, r) : r \in ApiModels}
         \cup {async_show_timetable(u, e, d) : e \in BOOLEAN, d \in ClientData}

\* the final statuses of the controller's HTTP server (requests follows
\* redirects)
BotStatuses == {200, 404, 500}

\* the ways a POST to the controller can end
Answers(p, u) ==
    {[transport |-> t, status |-> 0, body |-> NoReply] : t \in {"unreachable", "timeout"}}
    \cup {[transport |-> "ok", status |-> st, body |-> b] :
              st \in BotStatuses, b \in ControllerReplies(p, u) \cup {NotJson}}

\* telebot, _notify_next_handlers: a message in a chat with a next-step
\* handler goes to that handler, whatever its content, and the handler is
\* removed; TgBot.__get_login / __get_password
NextStepHandler(u, has_text, text) ==
    /\ turn.pc = "idle"
    /\ steps[u].handler # "none"
    /\ IF ~has_text
       THEN \* message.text is None: .strip() raises AttributeError
            /\ steps' = [steps EXCEPT ![u] = NoStep]
            /\ turn' = Turn("raised", u, FALSE, <<>>, "", <<>>, <<>>, NoAnswer, NoReply, <<>>)
       ELSE IF steps[u].handler = "get_login"
       THEN /\ steps' = [steps EXCEPT ![u] = [handler |-> "get_password", login |-> strip(text)]]
            /\ turn' = Turn("sent", u, TRUE, text, "", <<>>, <<>>, NoAnswer, NoReply,
                            <<Message(u, AskPassword, NoneVal)>>)
       ELSE /\ steps' = [steps EXCEPT ![u] = NoStep]
            /\ turn' = Turn("api", u, TRUE, text, "change_create_data", steps[u].login,
                            strip(text), NoAnswer, NoReply, <<>>)
    /\ UNCHANGED <<parserVars, storeVars, concVars, userVars>>

\* telebot, _notify_command_handlers: the first handler whose filter matches;
\* TgBot.__start ... __show_timetable, __text_messages, __change_create_data
MessageHandler(u, has_text, text) ==
    /\ turn.pc = "idle"
    /\ steps[u].handler = "none"
    /\ IF ~has_text
       THEN \* no handler is registered for other content types
            /\ turn' = Turn("ignored", u, FALSE, <<>>, "", <<>>, <<>>, NoAnswer, NoReply, <<>>)
            /\ UNCHANGED steps
       ELSE IF HandlerOf(text) = "dialogue"
       THEN /\ steps' = [steps EXCEPT ![u] = [handler |-> "get_login", login |-> <<>>]]
            /\ turn' = Turn("sent", u, TRUE, text, "", <<>>, <<>>, NoAnswer, NoReply,
                            <<Message(u, AskLogin, NoneVal)>>)
       ELSE IF HandlerOf(text) = "unknown"
       THEN /\ turn' = Turn("sent", u, TRUE, text, "", <<>>, <<>>, NoAnswer, NoReply,
                            <<Message(u, "unknown command", NoneVal)>>)
            /\ UNCHANGED steps
       ELSE /\ turn' = Turn("api", u, TRUE, text, HandlerOf(text), <<>>, <<>>, NoAnswer,
                            NoReply, <<>>)
            /\ UNCHANGED steps
    /\ UNCHANGED <<parserVars, storeVars, concVars, userVars>>

\* Api.__get_data returns
ApiAnswer(answer) ==
    /\ turn.pc = "api"
    /\ turn' = [turn EXCEPT !.pc = "reply", !.login = <<>>, !.password = <<>>,
                            !.answer = answer, !.data = get_data(turn.from, answer)]
    /\ UNCHANGED <<steps, parserVars, storeVars, concVars, userVars>>

\* TgBot.__send_file: data["message"] and data["file_name"] are read
send_file(data) ==
    IF data.shape = "file"
    THEN [raised |-> FALSE,
          delivered |-> <<Document(data.user_id, data.message, data.file_name, data.markup)>>]
    ELSE [raised |-> TRUE, delivered |-> <<>>]

\* TgBot.__send_data: data["messages"] is read, one message is sent for each
send_data(data) ==
    IF data.shape = "base"
    THEN [raised |-> FALSE,
          delivered |-> [i \in 1..Len(data.messages) |->
                            Message(data.user_id, data.messages[i], data.markup)]]
    ELSE [raised |-> TRUE, delivered |-> <<>>]

\* the handler passes the reply on: __show_timetable to __send_file, every
\* other handler to __send_data
Send ==
    /\ turn.pc = "reply"
    /\ LET sending == IF turn.path = "show_timetable" THEN send_file(turn.data)
                      ELSE send_data(turn.data)
       IN  turn' = [turn EXCEPT !.pc = IF sending.raised THEN "raised" ELSE "sent",
                                !.delivered = sending.delivered]
    /\ UNCHANGED <<steps, parserVars, storeVars, concVars, userVars>>

\* polling goes on with the next update
Finish ==
    /\ turn.pc \in {"sent", "raised", "ignored"}
    /\ turn' = NoTurn
    /\ UNCHANGED <<steps, parserVars, storeVars, concVars, userVars>>

NextBot ==
    \/ \E u \in UserIds, has_text \in BOOLEAN, text \in Texts : NextStepHandler(u, has_text, text)
    \/ \E u \in UserIds, has_text \in BOOLEAN, text \in Texts : MessageHandler(u, has_text, text)
    \/ \E answer \in Answers(turn.path, turn.from) : ApiAnswer(answer)
    \/ Send
    \/ Finish

SpecBot == Init /\ [][NextBot]_vars

\* =================================================================== claims
\* the invocation is over and these are its two responses
AuthDone == op = "auth" /\ pc = "done"
FeedAnswered == AuthDone /\ Len(resps) = 2 /\ resps[2].transport = "ok"
MarksReturned == op = "marks" /\ pc = "done" /\ outcome.kind = "marks"

RECURSIVE MarkCount(_)
MarkCount(works) == IF works = <<>> THEN 0 ELSE Len(Head(works)) + MarkCount(Tail(works))

\* the entry of MarksResult for a subject of the payload has the shape the
\* subject's own marks call for
EntryFits(subject, entry) ==
    /\ MarkCount(subject.works) = 0 => (Len(entry) = 1 /\ entry[1] = <<>>)
    /\ MarkCount(subject.works) > 0 =>
          (Len(entry) = 2 /\ entry[1] # <<>> /\ entry[2] = subject.average)

LastOfItsName(payload, i) ==
    \A j \in (i + 1)..Len(payload) : payload[j].name # payload[i].name

\* C1 as stated: for EVERY subject of the payload, the entry of MarksResult
\* under the subject's name has one element (the empty grade list) when the
\* subject has no marks and two elements, the second being the subject's
\* average, when it has at least one mark.
C1_EverySubject ==
    MarksReturned =>
        \A i \in 1..Len(resps[1].payload) :
            EntryFits(resps[1].payload[i], retval[resps[1].payload[i].name])

\* C1 amended: the same for every subject that is the last of its name in
\* the payload, and in every entry of MarksResult the average is present
\* iff the grade list is non-empty.
C1_LastSubject ==
    MarksReturned =>
        /\ \A i \in 1..Len(resps[1].payload) :
              LastOfItsName(resps[1].payload, i) =>
                  EntryFits(resps[1].payload[i], retval[resps[1].payload[i].name])
        /\ \A n \in SubjectNames :
              retval[n] # NoEntry => (Len(retval[n]) = 2 <=> retval[n][1] # <<>>)

C1_Witness ==
    /\ MarksReturned
    /\ \E n, m \in SubjectNames : Len(retval[n]) = 1 /\ Len(retval[m]) = 2

\* the value a cookie name has after the responses of the call: the last
\* Set-Cookie for it
Captured(n) ==
    IF resps[2].setCookies[n] # Absent THEN resps[2].setCookies[n] ELSE resps[1].setCookies[n]

\* C2: the cookies of every returned SessionState do not contain dnevnik_sst
\* and contain every other cookie captured during the call, whichever
\* response set it.
C2_Sanitized ==
    (AuthDone /\ outcome.kind = "user_data") =>
        /\ \A k \in 1..Len(retval.cookies.text) : retval.cookies.text[k][1] # SST
        /\ \A n \in CookieNames \ {SST} : loads(retval.cookies)[n] = Captured(n)

\* C3: a non-2xx feed answer or a feed page without the page-body element
\* makes authenticate return the failure value (None), nothing else.
C3_AuthFailure ==
    (FeedAnswered /\ (~IsSuccess(resps[2].status) \/ ~resps[2].page.hasBody)) =>
        (outcome.kind = "none" /\ retval = NoneVal)

StructuralDrift(page) ==
    /\ page.hasBody
    /\ \/ Len(page.scripts) < ScriptIndex
       \/ ~page.scripts[ScriptIndex].match
       \/ ~page.scripts[ScriptIndex].fragment.valid

\* C4: fewer than 12 scripts, a 12th script without the state assignment or
\* an invalid JSON fragment make the extraction return a failure value; no
\* exception reaches the caller.
C4_ParseFailureReturned ==
    (FeedAnswered /\ IsSuccess(resps[2].status) /\ StructuralDrift(resps[2].page)) =>
        (outcome.kind = "none" /\ retval = NoneVal)

NoAnchorAt200 ==
    /\ op = "timetable"
    /\ Len(resps) >= 1
    /\ resps[1].transport = "ok"
    /\ resps[1].status = 200
    /\ resps[1].anchor = "none"

\* C5: a schedule page fetched with status 200 that has no print-version
\* anchor makes get_timetable return the no-lessons text, a normal value, and
\* no second request is sent.
C5_NoLessons ==
    NoAnchorAt200 =>
        /\ pc = "done"
        /\ outcome.kind = "text"
        /\ retval = NoLessonsText
        /\ Len(sent) = 1

C5_Witness == NoAnchorAt200 /\ pc = "done" /\ outcome.kind = "text"

\* C6: a non-2xx answer to the schedule GET or to the print-version GET makes
\* get_timetable return the failure value, never html or the no-lessons text.
C6_TimetableNon2xx ==
    (op = "timetable" /\ pc = "done"
        /\ \E k \in 1..Len(resps) : resps[k].transport = "ok" /\ ~IsSuccess(resps[k].status)) =>
        (outcome.kind = "none" /\ retval = NoneVal)

\* C7: a network call that times out or fails at transport level makes the
\* operation return the failure value, no exception reaches the caller, and
\* every request is sent with the configured timeout.
C7_TransportFailure ==
    /\ (pc = "done" /\ resps[Len(resps)].transport # "ok") =>
          (outcome.kind = "none" /\ retval = NoneVal)
    /\ \A k \in 1..Len(sent) : sent[k].timeout = "configured"

MarksNon2xx ==
    /\ op = "marks"
    /\ pc = "done"
    /\ resps[1].transport = "ok"
    /\ ~IsSuccess(resps[1].status)

\* C8: a non-2xx answer to the marks GET makes get_marks return the failure
\* value and no MarksResult; the reshape runs only on a 2xx answer.
C8_MarksNon2xx ==
    /\ MarksNon2xx => (outcome.kind = "none" /\ retval = NoneVal)
    /\ (op = "marks" /\ pc = "done" /\ (outcome.kind = "marks" \/ outcome.exc = "KeyError")) =>
          (resps[1].transport = "ok" /\ IsSuccess(resps[1].status))

C8_Witness == MarksNon2xx /\ resps[1].payload # <<>> /\ outcome.kind = "none"

FullSession(row) ==
    /\ row.person_id \notin {NoneVal, Missing}
    /\ row.school_id \notin {NoneVal, Missing}
    /\ row.group_id \notin {NoneVal, Missing}
    /\ row.cookies.set

\* C9: in every reachable state of the user table each record has person_id,
\* school_id, group_id and cookies all set; a user without a full session has
\* no record.
C9_AllOrNothing ==
    \A u \in UserIds : store[u].exists => (store[u].row.id = u /\ FullSession(store[u].row))

\* a record is stored while another registration was refused
C9_Witness ==
    /\ \E u \in UserIds : store[u].exists
    /\ \E r \in ReqIds : reqs[r].pc = "done" /\ reqs[r].success = "False"

\* the session fields one successful authentication of the upstream yields
OneAuthentication(row) ==
    /\ <<row.login, row.password>> \in Credentials
    /\ \E fr \in StoreFeedResponses :
          /\ fr.transport = "ok" /\ fr.page.hasBody /\ Len(fr.page.scripts) >= ScriptIndex
          /\ row.person_id = fr.page.scripts[ScriptIndex].fragment.personId
          /\ row.school_id = fr.page.scripts[ScriptIndex].fragment.schoolId
          /\ row.group_id = fr.page.scripts[ScriptIndex].fragment.groupId
          /\ loads(row.cookies) = fr.setCookies

\* a record changes only in the write of a request, to that request's data
WrittenWhole ==
    \A u \in UserIds :
        store'[u] # store[u] =>
            \E r \in ReqIds :
                /\ reqs[r].pc = "write"
                /\ reqs'[r].pc = "done"
                /\ reqs[r].data.id = u
                /\ store'[u] = Row(reqs[r].data)

\* a request that ends at its authentication leaves the table as it was
FailureKeepsTable ==
    \A r \in ReqIds :
        (reqs[r].pc = "verify" /\ reqs'[r].pc = "done") => store' = store

\* C10: the stored record changes only in the write of a request whose
\* authentication succeeded, and then login, password, the identifiers and
\* the cookies are replaced together by that authentication's values; a
\* request whose authentication failed leaves the table as it was; so every
\* stored record carries the fields of one authentication.
C10_ReplacedTogether ==
    /\ [](\A u \in UserIds : store[u].exists => OneAuthentication(store[u].row))
    /\ [][WrittenWhole /\ FailureKeepsTable]_vars

\* a record was created by one request and replaced by another
C10_Witness ==
    \E u \in UserIds :
        /\ store[u].exists
        /\ \A r \in {1, 2} :
              reqs[r].pc = "done" /\ reqs[r].success = "True" /\ reqs[r].data.id = u

\* the requests of the invocation still waiting for their response
InFlight == Len(sent) - Len(resps)

\* C11: the network calls of one invocation are sequential and in the stated
\* order: at most one request is in flight; the feed GET is sent only after
\* the login POST returned, with the jar of the login response less
\* dnevnik_sst; nothing is extracted before the feed GET returned; the
\* print-version GET is sent only after the schedule GET returned a page whose
\* anchor has an href.
C11_Sequential ==
    /\ InFlight \in {0, 1}
    /\ pc \in {"idle", "done"} => InFlight = 0
    /\ op = "auth" =>
          /\ sent[1].url = "login"
          /\ Len(sent) <= 2
          /\ Len(sent) = 2 =>
                /\ sent[2].url = "feed"
                /\ Len(resps) >= 1 /\ resps[1].transport = "ok"
                /\ sent[2].cookies[SST] = Absent
                /\ \A n \in CookieNames \ {SST} : sent[2].cookies[n] = resps[1].setCookies[n]
          /\ Len(resps) < 2 =>
                /\ user_data.person_id = NoneVal /\ user_data.school_id = NoneVal
                /\ user_data.group_id = NoneVal /\ ~user_data.cookies.set
                /\ retval = NoneVal
    /\ op = "timetable" =>
          /\ sent[1].url = "schedule"
          /\ Len(sent) <= 2
          /\ Len(sent) = 2 =>
                /\ sent[2].url = "print"
                /\ Len(resps) >= 1 /\ resps[1].transport = "ok" /\ resps[1].anchor = "href"
    /\ op = "marks" => (Len(sent) = 1 /\ sent[1].url = "marks")

\* an authentication whose login response set dnevnik_sst ran to its end
C11_Witness ==
    /\ AuthDone
    /\ outcome.kind = "user_data"
    /\ Len(sent) = 2
    /\ resps[1].setCookies[SST] # Absent

\* a step of the invocation failed: transport error or non-2xx status
StepFailed(resp) == resp.transport # "ok" \/ ~IsSuccess(resp.status)

\* C12: an invocation sends each of its requests at most once, and once the
\* response to its k-th request is a failure it has sent no more than k
\* requests.
C12_NoRetryTerminal ==
    /\ \A j, k \in 1..Len(sent) : sent[j].url = sent[k].url => j = k
    /\ \A k \in 1..Len(resps) : StepFailed(resps[k]) => Len(sent) <= k

\* the login endpoint rejected the credentials and the feed answer carries no
\* state of a signed-in user
RejectedLogin ==
    /\ AuthDone
    /\ Len(resps) = 2
    /\ resps[1].status = 401
    /\ resps[2].transport = "ok"
    /\ \/ ~IsSuccess(resps[2].status)
       \/ ~resps[2].page.hasBody
       \/ Len(resps[2].page.scripts) < ScriptIndex

\* C14: when the portal rejects the credentials authenticate returns the
\* failure value (None): no SessionState is returned and no exception reaches
\* the caller.
C14_RejectedCredentials ==
    RejectedLogin => (outcome.kind = "none" /\ retval = NoneVal)

\* the payload of a 2xx answer holds a subject with marks and no average
Misshapen(payload) ==
    \E i \in 1..Len(payload) :
        MarkCount(payload[i].works) > 0 /\ payload[i].average = Missing

\* C15: a 2xx answer to the marks GET whose payload has not the expected
\* shape makes get_marks return the failure value; no exception reaches the
\* caller.
C15_MarksShapeFailure ==
    (op = "marks" /\ pc = "done" /\ resps[1].transport = "ok"
        /\ IsSuccess(resps[1].status) /\ Misshapen(resps[1].payload)) =>
        (outcome.kind = "none" /\ retval = NoneVal)

RECURSIVE GradeList(_)
GradeList(works) ==
    IF Len(works) = 0 THEN <<>>
    ELSE GradeList(SubSeq(works, 1, Len(works) - 1)) \o works[Len(works)]

\* C17: the grade list of an entry of MarksResult is the concatenation, work
\* by work in payload order, of the marks of each work in payload order, of
\* the subject the entry was built from.
C17_UpstreamOrder ==
    MarksReturned =>
        \A i \in 1..Len(resps[1].payload) :
            LastOfItsName(resps[1].payload, i) =>
                retval[resps[1].payload[i].name][1] = GradeList(resps[1].payload[i].works)

\* Math with works [5] and [4] and average 4.5 yields [[5, 4], 4.5]
C17_Witness ==
    /\ MarksReturned
    /\ resps[1].payload = <<[name |-> "Math", works |-> <<(<<"5">>), (<<"4">>)>>, average |-> "4.5"]>>
    /\ retval["Math"] = <<(<<"5", "4">>), "4.5">>

\* the entry one subject alone yields
OwnEntry(subject) ==
    IF MarkCount(subject.works) > 0
    THEN <<GradeList(subject.works), subject.average>>
    ELSE <<GradeList(subject.works)>>

\* C18: MarksResult has one entry per subject name of the payload and none
\* for other names; the entry of a name is the one its last subject in
\* payload order yields alone, whatever the earlier subjects of that name
\* hold.
C18_LastWriteWins ==
    MarksReturned =>
        \A n \in SubjectNames :
            /\ (\A i \in 1..Len(resps[1].payload) : resps[1].payload[i].name # n) => retval[n] = NoEntry
            /\ \A i \in 1..Len(resps[1].payload) :
                  (resps[1].payload[i].name = n /\ LastOfItsName(resps[1].payload, i)) =>
                      retval[n] = OwnEntry(resps[1].payload[i])

\* two subjects of one name, the first with marks, the second without
C18_Witness ==
    /\ MarksReturned
    /\ Len(resps[1].payload) = 2
    /\ resps[1].payload[1].name = resps[1].payload[2].name
    /\ MarkCount(resps[1].payload[1].works) > 0
    /\ MarkCount(resps[1].payload[2].works) = 0
    /\ retval[resps[1].payload[1].name] = <<(<<>>)>>

\* C20: the identifiers of a returned SessionState are personId, schoolId and
\* groupId of the analytics object assigned in the 12th script block of the
\* feed page's body; a state assignment in another block is not used.
C20_TwelfthScript ==
    (AuthDone /\ outcome.kind = "user_data") =>
        /\ resps[2].page.hasBody
        /\ Len(resps[2].page.scripts) >= ScriptIndex
        /\ resps[2].page.scripts[ScriptIndex].match
        /\ retval.person_id = resps[2].page.scripts[ScriptIndex].fragment.personId
        /\ retval.school_id = resps[2].page.scripts[ScriptIndex].fragment.schoolId
        /\ retval.group_id = resps[2].page.scripts[ScriptIndex].fragment.groupId

C20_Witness ==
    /\ AuthDone
    /\ outcome.kind = "user_data"
    /\ retval.person_id = "p1" /\ retval.school_id = "s1" /\ retval.group_id = "g1"

\* what call i returns when it runs alone against the responses it received
RunAlone(i) ==
    LET c == calls[i]
        last == c.resps[Len(c.resps)]
    IN  IF c.op = "auth"
        THEN LET a == Authenticate(NewUserData(NoneVal, LoginOf(i), PasswordOf(i)), c.resps[1], last)
             IN  [kind |-> a.kind, exc |-> a.exc,
                  retval |-> IF a.kind = "user_data" THEN a.user_data ELSE NoneVal]
        ELSE IF c.op = "marks"
        THEN LET m == get_marks(c.resps[1])
             IN  [kind |-> m.kind, exc |-> m.exc,
                  retval |-> IF m.kind = "marks" THEN m.marks ELSE NoneVal]
        ELSE LET a == AfterSchedule(c.resps[1])
                 b == AfterPrint(last)
             IN  IF a.kind = "get"
                 THEN [kind |-> b.kind, exc |-> b.exc,
                       retval |-> IF b.kind = "text" THEN b.text ELSE NoneVal]
                 ELSE [kind |-> a.kind, exc |-> a.exc,
                       retval |-> IF a.kind = "text" THEN NoLessonsText ELSE NoneVal]

OwnCookies(i, d) == \A n \in CookieNames : d[n] \in {Absent, CookieOf(i)}

\* C13: whatever the interleaving of the calls made for different users, each
\* call returns what it returns when run alone against the responses it
\* received, and the cookies it sends and returns are its own user's.
C13_Independent ==
    \A i \in CallIds :
        /\ calls[i].pc = "done" =>
              /\ calls[i].outcome.kind = RunAlone(i).kind
              /\ calls[i].outcome.exc = RunAlone(i).exc
              /\ calls[i].retval = RunAlone(i).retval
        /\ \A k \in 1..Len(calls[i].sent) : OwnCookies(i, calls[i].sent[k].cookies)
        /\ calls[i].outcome.kind = "user_data" =>
              /\ OwnCookies(i, loads(calls[i].retval.cookies))
              /\ calls[i].retval.person_id = PersonOf(i)

\* call 1 returned a session while the authentication of call 2 is between
\* its login POST and the answer to its feed GET
C13_Witness ==
    /\ calls[1].pc = "done" /\ calls[1].outcome.kind = "user_data"
    /\ calls[2].pc = "feed_get"

FetchPcs == {"marks_get_user", "timetable_get_user", "marks_api", "timetable_api"}

\* request r takes a step of a marks or timetable request
FetchStep(r) ==
    /\ reqs'[r] # reqs[r]
    /\ reqs[r].pc \in FetchPcs \/ reqs'[r].pc \in FetchPcs

\* C19: a step of a marks or timetable request, whatever its outcome, leaves
\* the user table as it was, and the call of the parser service leaves the
\* session it was given as it was.
C19_ReadOnly ==
    [][\A r \in ReqIds :
          FetchStep(r) =>
              /\ store' = store
              /\ reqs[r].pc \in {"marks_api", "timetable_api"} => reqs'[r].data = reqs[r].data]_vars

\* the fetch of a stored user failed and the record is kept
C19_Witness ==
    \E r \in ReqIds :
        /\ reqs[r].pc = "done" /\ reqs[r].success = "error"
        /\ store[reqs[r].data.id] = Row(reqs[r].data)


\* the status the parser service answers for the invocation that ended
AnsweredStatus ==
    IF op = "marks"
    THEN router_get_marks([kind |-> outcome.kind,
                           marks |-> IF outcome.kind = "marks" THEN retval ELSE EmptyMarks])
    ELSE IF op = "timetable"
    THEN router_get_timetable([kind |-> outcome.kind,
                               text |-> IF outcome.kind = "text" THEN retval ELSE ""])
    ELSE verify_data_get_personal_data([kind |-> outcome.kind])

\* C21: the parser service answers 400 exactly when the parser returned its
\* failure value, and 200 for every result the parser returned, a MarksResult
\* without subjects and the no-lessons text included.
C21_Status400 ==
    pc = "done" =>
        /\ AnsweredStatus = 400 <=> outcome.kind = "none"
        /\ outcome.kind \in {"marks", "text", "user_data"} => AnsweredStatus = 200

\* request r returns from Database.create_update_user in this step
WriteReturns(r) == reqs[r].pc = "write" /\ reqs'[r].pc = "done"

\* C23: create_update_user returns True only when the table then holds the
\* given data under data.id; on every database error (of the existence
\* check, of the insert or update, of the commit) it returns False and the
\* table is as before.
C23_CreateUpdateResult ==
    [][\A r \in ReqIds :
          WriteReturns(r) =>
              /\ reqs'[r].success = "True" => store'[reqs[r].data.id] = Row(reqs[r].data)
              /\ reqs'[r].success # "True" => (reqs'[r].success = "False" /\ store' = store)
              /\ reqs[r].exists = "None" => (reqs'[r].success = "False" /\ store' = store)]_vars

\* C27: a change_create_data request that found its user not stored, while
\* another request registered that user before it wrote, reports success and
\* the table holds one record for the user, the data of one of the two.
C27_BothSucceed ==
    [][\A r \in ReqIds :
          (WriteReturns(r) /\ reqs[r].exists = "False" /\ store[reqs[r].data.id].exists) =>
              /\ reqs'[r].success = "True"
              /\ store'[reqs[r].data.id] \in {store[reqs[r].data.id], Row(reqs[r].data)}]_vars

GetUserPcs == {"marks_get_user", "timetable_get_user"}
ApiPcs == {"marks_api", "timetable_api"}

\* C28: a marks or timetable request asks the parser service only after it
\* looked its user up, and only with the record the lookup found; when the
\* table has no record for the user the request ends with the empty reply
\* and nothing is asked.
C28_LookupFirst ==
    [][\A r \in ReqIds :
          /\ (reqs'[r].pc \in ApiPcs /\ reqs[r].pc \notin ApiPcs) =>
                /\ reqs[r].pc \in GetUserPcs
                /\ store[reqs[r].data.id].exists
                /\ reqs'[r].data = store[reqs[r].data.id].row
          /\ (reqs[r].pc \in GetUserPcs /\ reqs'[r] # reqs[r] /\ ~store[reqs[r].data.id].exists) =>
                (reqs'[r].pc = "done" /\ reqs'[r].success = "empty")
          /\ (reqs[r].pc \in GetUserPcs /\ reqs'[r].pc = "done") =>
                (reqs'[r].success = "empty" /\ reqs'[r].data = reqs[r].data)]_vars

\* while another user is registered, a request for a user that is not stored
\* ended at the lookup with the empty reply
C28_Witness ==
    \E r, q \in ReqIds :
        /\ reqs[r].pc = "done" /\ reqs[r].success = "empty" /\ reqs[r].data.login = ""
        /\ ~store[reqs[r].data.id].exists
        /\ reqs[q].pc = "done" /\ reqs[q].success = "True"
        /\ store[reqs[q].data.id].exists

\* C29: when an invocation has returned or failed, the HTTP client it opened
\* is closed, on every path.
C29_ClientClosed ==
    pc = "done" => ~clientOpen

\* the reply names the sender and is a text reply with one message or a file
\* reply (the keys message and file_name in place of messages) with a file
\* name
WellFormed(reply, sender) ==
    /\ reply.user_id = sender
    /\ \/ reply.shape = "base" /\ Len(reply.messages) = 1
       \/ reply.shape = "file" /\ reply.messages = <<>> /\ reply.file_name # ""

\* C24: show_marks and show_timetable give the unregistered reply only to a
\* sender that has no stored record; a registered sender gets the data or the
\* server-problems reply.
C24_RegisteredNotUnregistered ==
    (msg.pc = "replied" /\ msg.op \in {"show_marks", "show_timetable"}) =>
        /\ msg.reply = unregistered(msg.from, NoneVal) => ~store[msg.from].exists
        /\ store[msg.from].exists =>
              \/ msg.reply = server_problems(msg.from, NoneVal)
              \/ msg.reply.shape = "file"
              \/ msg.reply.messages = <<"show_marks.tfb">>

\* C30: every reply a controller builds, for each of its six commands and on
\* each branch, names the sender of the message as user_id and is a text
\* reply with exactly one message or a file reply with a message and a file
\* name.
C30_AddressedToSender ==
    /\ msg.pc = "replied" => WellFormed(msg.reply, msg.from)
    /\ \A u \in UserIds, e \in BOOLEAN, d \in ClientData :
          /\ WellFormed(async_start(u, e), u)
          /\ WellFormed(async_help(u), u)
          /\ WellFormed(async_change_create_data(u, d), u)
          /\ WellFormed(async_show_data(u, e), u)
          /\ WellFormed(async_show_marks(u, e, d), u)
          /\ WellFormed(async_show_timetable(u, e, d), u)

\* a registered sender was answered with the timetable file
C30_Witness ==
    /\ msg.pc = "replied" /\ msg.op = "show_timetable"
    /\ msg.reply.shape = "file" /\ msg.reply.user_id = msg.from
    /\ store[msg.from].exists

\* user u sends the message the bot takes up in this step
Takes(u) == turn.pc = "idle" /\ turn'.pc # "idle" /\ turn'.from = u

\* C22: change_create_data without credentials asks for the login; the
\* sender's next message is taken as the login and the password is asked;
\* the message after it is taken as the password, and only then, once, the
\* controller's change_create_data is called with the two stripped texts,
\* which leaves the dialogue idle.
C22_Dialogue ==
    [][\A u \in UserIds :
          Takes(u) =>
              /\ (steps[u].handler = "none" /\ turn'.has_text /\ HandlerOf(turn'.text) = "dialogue") =>
                    /\ steps'[u] = [handler |-> "get_login", login |-> <<>>]
                    /\ turn'.pc = "sent"
                    /\ turn'.delivered = <<Message(u, AskLogin, NoneVal)>>
              /\ steps[u].handler = "get_login" =>
                    /\ turn'.has_text
                    /\ steps'[u] = [handler |-> "get_password", login |-> strip(turn'.text)]
                    /\ turn'.pc = "sent"
                    /\ turn'.delivered = <<Message(u, AskPassword, NoneVal)>>
              /\ steps[u].handler = "get_password" =>
                    /\ turn'.has_text
                    /\ turn'.pc = "api" /\ turn'.path = "change_create_data"
                    /\ turn'.login = steps[u].login
                    /\ turn'.password = strip(turn'.text)
                    /\ steps'[u] = NoStep
              /\ (turn'.pc = "api" /\ turn'.path = "change_create_data") =>
                    steps[u].handler = "get_password"]_vars

\* the request to the controller failed
Failed(answer) ==
    \/ answer.transport # "ok"
    \/ ~IsSuccess(answer.status)
    \/ answer.body.shape = "notjson"

C26_TimetableDelivered ==
    (turn.path = "show_timetable" /\ turn.pc \in {"sent", "raised"}) =>
        /\ turn.pc = "sent"
        /\ turn.delivered # <<>>
        /\ \A i \in 1..Len(turn.delivered) : turn.delivered[i].chat = turn.data.user_id

====
